---- MODULE Spec2Model ----
(***************************************************************************)
(* Model of backend/server.py: the credit-card store handlers and the two  *)
(* analytics functions calculate_5_24_status and analyze_credit_portfolio. *)
(*                                                                         *)
(* Python strings are sequences of one-character strings, so that          *)
(* str.lower() and datetime.strptime() are computed character by           *)
(* character.  A Python value of varying type (present, null, number,      *)
(* string) is a tagged record, see Null / Absent / Num / Str.              *)
(* Monetary amounts are integers; a percentage or an age rounded to one    *)
(* decimal is the integer number of tenths.                                *)
(***************************************************************************)
EXTENDS Integers, Sequences, FiniteSets, TLC

VARIABLES
    db,     \* db.credit_cards: the stored documents, in insertion order
    now,    \* the ambient clock datetime.now() reads: [day, tod]
    resp    \* the last call: [op, user, cards, now, status, out]

vars == <<db, now, resp>>

----------------------------------------------------------------------------
(* Python values *)

Null == [t |-> "null", n |-> 0, s |-> <<>>]

Absent == [t |-> "absent", n |-> 0, s |-> <<>>]

Num(x) == [t |-> "num", n |-> x, s |-> <<>>]

Str(x) == [t |-> "str", n |-> 0, s |-> x]

\* dict.get(key, default): the default only when the key is missing
Get(card, key, default) ==
    IF card[key].t = "absent" THEN default ELSE card[key]

\* bool(v) for None, numbers and strings
Truthy(v) ==
    CASE v.t = "null" -> FALSE
      [] v.t = "absent" -> FALSE
      [] v.t = "num" -> v.n # 0
      [] v.t = "str" -> v.s # <<>>

UpperToLower ==
    [c \in {"A", "C", "D", "E", "I", "K", "L", "N", "O", "S", "T", "U", "V", "W"} |->
        CASE c = "A" -> "a" [] c = "C" -> "c" [] c = "D" -> "d" [] c = "E" -> "e"
          [] c = "I" -> "i" [] c = "K" -> "k" [] c = "L" -> "l" [] c = "N" -> "n"
          [] c = "O" -> "o" [] c = "S" -> "s" [] c = "T" -> "t" [] c = "U" -> "u"
          [] c = "V" -> "v" [] c = "W" -> "w"]

\* the string as it is
Lower_AsIs(s) == s

\* str.lower()
Lower(s) ==
    [i \in 1..Len(s) |-> IF s[i] \in DOMAIN UpperToLower THEN UpperToLower[s[i]] ELSE s[i]]

sActive == <<"a", "c", "t", "i", "v", "e">>

sClosed == <<"c", "l", "o", "s", "e", "d">>

sUnknown == <<"U", "n", "k", "n", "o", "w", "n">>

----------------------------------------------------------------------------
(* datetime *)

Digits == {"0", "1", "2", "3", "4", "5", "6", "7", "8", "9"}

DigitVal(c) ==
    CASE c = "0" -> 0 [] c = "1" -> 1 [] c = "2" -> 2 [] c = "3" -> 3 [] c = "4" -> 4
      [] c = "5" -> 5 [] c = "6" -> 6 [] c = "7" -> 7 [] c = "8" -> 8 [] c = "9" -> 9
      [] c = " " -> 0

\* int() of a matched directive
RECURSIVE TokVal(_)
TokVal(s) ==
    IF s = <<>> THEN 0 ELSE 10 * TokVal(SubSeq(s, 1, Len(s) - 1)) + DigitVal(s[Len(s)])

\* the fields of s between occurrences of the separator sep
RECURSIVE Split(_, _)
Split(s, sep) ==
    IF \A i \in 1..Len(s) : s[i] # sep
    THEN <<s>>
    ELSE LET k == CHOOSE i \in 1..Len(s) : s[i] = sep /\ \A j \in 1..(i - 1) : s[j] # sep
         IN <<SubSeq(s, 1, k - 1)>> \o Split(SubSeq(s, k + 1, Len(s)), sep)

\* the regular expression strptime compiles for each directive:
\*   %Y  \d\d\d\d
\*   %m  1[0-2]|0[1-9]|[1-9]
\*   %d  3[0-1]|[1-2]\d|0[1-9]|[1-9]| [1-9]
DirectiveMatches(dir, s) ==
    CASE dir = "Y" -> Len(s) = 4 /\ \A i \in 1..4 : s[i] \in Digits
      [] dir = "m" ->
            \/ Len(s) = 2 /\ s[1] = "1" /\ s[2] \in {"0", "1", "2"}
            \/ Len(s) = 2 /\ s[1] = "0" /\ s[2] \in Digits \ {"0"}
            \/ Len(s) = 1 /\ s[1] \in Digits \ {"0"}
      [] dir = "d" ->
            \/ Len(s) = 2 /\ s[1] = "3" /\ s[2] \in {"0", "1"}
            \/ Len(s) = 2 /\ s[1] \in {"1", "2"} /\ s[2] \in Digits
            \/ Len(s) = 2 /\ s[1] = "0" /\ s[2] \in Digits \ {"0"}
            \/ Len(s) = 1 /\ s[1] \in Digits \ {"0"}
            \/ Len(s) = 2 /\ s[1] = " " /\ s[2] \in Digits \ {"0"}

\* the format list with %Y-%m ahead of %m/%Y
Formats_Reordered == <<"%Y-%m-%d", "%Y-%m", "%m/%Y", "%m-%d-%Y">>

\* the four formats of the loops, in the order of the list literal
Formats == <<"%Y-%m-%d", "%m/%Y", "%Y-%m", "%m-%d-%Y">>

FormatSep(fmt) == IF fmt = "%m/%Y" THEN "/" ELSE "-"

FormatDirs(fmt) ==
    CASE fmt = "%Y-%m-%d" -> <<"Y", "m", "d">>
      [] fmt = "%m/%Y" -> <<"m", "Y">>
      [] fmt = "%Y-%m" -> <<"Y", "m">>
      [] fmt = "%m-%d-%Y" -> <<"m", "d", "Y">>

IsLeap(y) == y % 4 = 0 /\ (y % 100 # 0 \/ y % 400 = 0)

DaysInMonth(y, m) ==
    CASE m \in {1, 3, 5, 7, 8, 10, 12} -> 31
      [] m \in {4, 6, 9, 11} -> 30
      [] m = 2 -> IF IsLeap(y) THEN 29 ELSE 28

NoDate == [ok |-> FALSE, y |-> 0, m |-> 0, d |-> 0]

\* the datetime of the fields found, ValueError when they name no day of the
\* calendar (year 0, a day the month lacks)
MakeDate(y, m, d) ==
    IF y < 1 \/ d > DaysInMonth(y, m)
    THEN NoDate
    ELSE [ok |-> TRUE, y |-> y, m |-> m, d |-> d]

\* the number matched by directive dir, default when the format lacks it
FieldValue(dirs, parts, dir, default) ==
    IF \E i \in 1..Len(dirs) : dirs[i] = dir
    THEN TokVal(parts[CHOOSE i \in 1..Len(dirs) : dirs[i] = dir])
    ELSE default

\* the fields parts of the string against the directives dirs of the format
ParseFields(dirs, parts) ==
    IF Len(parts) # Len(dirs) \/ \E i \in 1..Len(dirs) : ~DirectiveMatches(dirs[i], parts[i])
    THEN NoDate
    ELSE MakeDate(FieldValue(dirs, parts, "Y", 1900),
                  FieldValue(dirs, parts, "m", 1),
                  FieldValue(dirs, parts, "d", 1))

\* datetime.strptime(s, fmt): the whole string must match the format, and the
\* fields must name a day of the calendar; ok = FALSE is ValueError.
\* A directive the format lacks keeps its default (1900-01-01).
strptime(s, fmt) == ParseFields(FormatDirs(fmt), Split(s, FormatSep(fmt)))

\* datetime.replace(day=1)
ReplaceDay1(dt) == [dt EXCEPT !.d = 1]

RECURSIVE DaysBeforeMonth(_, _)
DaysBeforeMonth(y, m) ==
    IF m = 1 THEN 0 ELSE DaysBeforeMonth(y, m - 1) + DaysInMonth(y, m - 1)

\* the proleptic Gregorian ordinal of a date (datetime.toordinal), the
\* quantity datetime comparison and subtraction work on
Ordinal(dt) ==
    LET y1 == dt.y - 1
    IN  y1 * 365 + (y1 \div 4) - (y1 \div 100) + (y1 \div 400)
        + DaysBeforeMonth(dt.y, dt.m) + dt.d

----------------------------------------------------------------------------
(* calculate_5_24_status *)

\* datetime.now() - timedelta(days=24*30): the time of day is kept
CutoffDate(clock) == [day |-> clock.day - 24 * 30, tod |-> clock.tod]

\* open_date > cutoff_date
NotBeforeCutoff_Strict(dt, cutoff) == Ordinal(dt) > cutoff.day

\* open_date >= cutoff_date, open_date being a midnight
NotBeforeCutoff(dt, cutoff) ==
    \/ Ordinal(dt) > cutoff.day
    \/ Ordinal(dt) = cutoff.day /\ 0 >= cutoff.tod

\* the body of the loop "for fmt in [...]" at the i-th format fmt, parsed the
\* outcome of strptime: the date (with day 1 for %m/%Y) and break, or on
\* ValueError the rest of the loop
TryFormat(parsed, fmt, i, rest) ==
    IF parsed.ok
    THEN [dt |-> IF fmt = "%m/%Y" THEN ReplaceDay1(parsed) ELSE parsed, tried |-> i]
    ELSE rest

\* strptime gave a date and "if open_date >= cutoff_date" holds of it
ParsedInWindow(dt, cutoff) == dt.ok /\ NotBeforeCutoff(dt, cutoff)

\* the loop "for fmt in [...]" of calculate_5_24_status from format i on:
\* the first format strptime accepts ends the loop (break), a ValueError
\* moves on to the next (continue).  tried counts the calls of strptime.
RECURSIVE TryFormats524(_, _)
TryFormats524(s, i) ==
    IF i > Len(Formats)
    THEN [dt |-> NoDate, tried |-> Len(Formats)]
    ELSE TryFormat(strptime(s, Formats[i]), Formats[i], i, TryFormats524(s, i + 1))

\* the open date calculate_5_24_status obtains from the value of open_date.
\* A value that is not a string makes strptime raise TypeError, which the
\* bare except swallows for this record.
ParseOpenDate524(open_date_str) ==
    IF Truthy(open_date_str) /\ open_date_str # Str(sUnknown)
    THEN IF open_date_str.t = "str"
         THEN TryFormats524(open_date_str.s, 1)
         ELSE [dt |-> NoDate, tried |-> 1]
    ELSE [dt |-> NoDate, tried |-> 0]

OpenDate524(card) == ParseOpenDate524(Get(card, "open_date", Str(<<>>)))

\* card.get('status', '').lower() raises AttributeError unless a string
StatusRaises(card) == Get(card, "status", Str(<<>>)).t # "str"

StatusLower(card) == Lower(Get(card, "status", Str(<<>>)).s)

RecentEntry(card) ==
    [card_name |-> Get(card, "card_name", Str(sUnknown)),
     issuer |-> Get(card, "issuer", Str(sUnknown)),
     open_date |-> Get(card, "open_date", Str(<<>>))]

\* the record loop with the failing record skipped instead of the call abandoned
RECURSIVE RecentCardsFrom_SkipRaise(_, _, _, _)
RecentCardsFrom_SkipRaise(cards, i, cutoff, recent_cards) ==
    IF i > Len(cards)
    THEN [raised |-> FALSE, recent_cards |-> recent_cards]
    ELSE RecentCardsFrom_SkipRaise(cards, i + 1, cutoff,
             IF ~StatusRaises(cards[i])
                /\ StatusLower(cards[i]) = sActive
                /\ ParsedInWindow(OpenDate524(cards[i]).dt, cutoff)
             THEN Append(recent_cards, RecentEntry(cards[i]))
             ELSE recent_cards)

\* the record loop without the test of the status
RECURSIVE RecentCardsFrom_AnyStatus(_, _, _, _)
RecentCardsFrom_AnyStatus(cards, i, cutoff, recent_cards) ==
    IF i > Len(cards)
    THEN [raised |-> FALSE, recent_cards |-> recent_cards]
    ELSE IF StatusRaises(cards[i])
    THEN [raised |-> TRUE, recent_cards |-> <<>>]
    ELSE RecentCardsFrom_AnyStatus(cards, i + 1, cutoff,
             IF ParsedInWindow(OpenDate524(cards[i]).dt, cutoff)
             THEN Append(recent_cards, RecentEntry(cards[i]))
             ELSE recent_cards)

\* the loop "for card in cards" from record i on: the list recent_cards it
\* builds, or raised when a record makes it raise
RECURSIVE RecentCardsFrom(_, _, _, _)
RecentCardsFrom(cards, i, cutoff, recent_cards) ==
    IF i > Len(cards)
    THEN [raised |-> FALSE, recent_cards |-> recent_cards]
    ELSE IF StatusRaises(cards[i])
    THEN [raised |-> TRUE, recent_cards |-> <<>>]
    ELSE RecentCardsFrom(cards, i + 1, cutoff,
             IF StatusLower(cards[i]) = sActive /\ ParsedInWindow(OpenDate524(cards[i]).dt, cutoff)
             THEN Append(recent_cards, RecentEntry(cards[i]))
             ELSE recent_cards)

Max(a, b) == IF a >= b THEN a ELSE b

\* the report of the except branch
Degraded524 ==
    [cards_in_24_months |-> 0,
     is_eligible |-> TRUE,
     remaining_slots |-> 5,
     recent_cards |-> <<>>,
     status |-> "Unknown",
     recommendation |-> "Unable to calculate 5/24 status"]

\* the dict of the return statement
Report524(recent_cards, is_eligible, remaining_slots) ==
    [cards_in_24_months |-> Len(recent_cards),
     is_eligible |-> is_eligible,
     remaining_slots |-> remaining_slots,
     recent_cards |-> recent_cards,
     status |-> IF is_eligible THEN "Eligible" ELSE "Not Eligible",
     recommendation |->
         IF is_eligible
         THEN "You can apply for " \o ToString(remaining_slots) \o " more Chase cards"
         ELSE "Wait for older cards to age out of 24-month window"]

\* After524 with remaining_slots = 5 - n, without the max
After524_NoMax(loop) ==
    IF loop.raised
    THEN Degraded524
    ELSE Report524(loop.recent_cards,
                   Len(loop.recent_cards) < 5,
                   5 - Len(loop.recent_cards))

\* the statements after the record loop, and the except branch when the
\* loop raised
After524(loop) ==
    IF loop.raised
    THEN Degraded524
    ELSE Report524(loop.recent_cards,
                   Len(loop.recent_cards) < 5,
                   Max(0, 5 - Len(loop.recent_cards)))

calculate_5_24_status(cards, clock) ==
    After524(RecentCardsFrom(cards, 1, CutoffDate(clock), <<>>))

----------------------------------------------------------------------------
(* analyze_credit_portfolio *)

\* the quotient cut off instead of rounded
RoundDiv_Floor(a, b) == a \div b

\* round(a / b, 0) for a >= 0, b > 0: to nearest, a tie to the even neighbour
RoundDiv(a, b) ==
    LET q == a \div b
        r == a % b
    IN  IF 2 * r < b THEN q
        ELSE IF 2 * r > b THEN q + 1
        ELSE IF q % 2 = 0 THEN q ELSE q + 1

RoundDivSigned(a, b) == IF a >= 0 THEN RoundDiv(a, b) ELSE 0 - RoundDiv(0 - a, b)

\* the loop of analyze_credit_portfolio without its last format
RECURSIVE TryFormatsPortfolio_ThreeFormats(_, _)
TryFormatsPortfolio_ThreeFormats(s, i) ==
    IF i > Len(Formats) - 1
    THEN [dt |-> NoDate, tried |-> Len(Formats) - 1]
    ELSE TryFormat(strptime(s, Formats[i]), Formats[i], i,
                   TryFormatsPortfolio_ThreeFormats(s, i + 1))

\* the loop "for fmt in [...]" of analyze_credit_portfolio from format i on
RECURSIVE TryFormatsPortfolio(_, _)
TryFormatsPortfolio(s, i) ==
    IF i > Len(Formats)
    THEN [dt |-> NoDate, tried |-> Len(Formats)]
    ELSE TryFormat(strptime(s, Formats[i]), Formats[i], i, TryFormatsPortfolio(s, i + 1))

\* the open date analyze_credit_portfolio obtains from the value of open_date
ParseOpenDatePortfolio(open_date_str) ==
    IF Truthy(open_date_str) /\ open_date_str # Str(sUnknown)
    THEN IF open_date_str.t = "str"
         THEN TryFormatsPortfolio(open_date_str.s, 1)
         ELSE [dt |-> NoDate, tried |-> 1]
    ELSE [dt |-> NoDate, tried |-> 0]

OpenDatePortfolio(card) == ParseOpenDatePortfolio(Get(card, "open_date", Str(<<>>)))

\* v or 0
OrZeroValue(v) == IF Truthy(v) THEN v ELSE Num(0)

\* card.get(key, 0) or 0
OrZero(card, key) == OrZeroValue(Get(card, key, Num(0)))

\* card.get('annual_fee', 0) or 0
AnnualFee(card) == OrZero(card, "annual_fee")

CardName(card) == Get(card, "card_name", Str(sUnknown))

Issuer(card) == Get(card, "issuer", Str(sUnknown))

\* the test with the balance taken for its truth value
HasUtilization_TruthyBalance(card) ==
    /\ Truthy(card.credit_limit)
    /\ Truthy(card.current_balance)

\* if card.get('credit_limit') and card.get('current_balance') is not None
HasUtilization(card) ==
    /\ Truthy(card.credit_limit)
    /\ card.current_balance.t \notin {"null", "absent"}

\* as if the fee were coerced to a number: a string fee no longer raises
PortfolioRaises_FeeCoerced(card) ==
    \/ StatusRaises(card)
    \/ Truthy(card.credit_limit) /\ card.credit_limit.t # "num"
    \/ HasUtilization(card) /\ card.current_balance.t # "num"
    \/ HasUtilization(card) /\ card.credit_limit = Num(0)

\* the statements of analyze_credit_portfolio that raise on this record:
\* .lower() of a status that is no string (AttributeError), += of a string
\* limit or fee, / of a string balance (TypeError), / by a limit of 0
\* (ZeroDivisionError)
PortfolioRaises(card) ==
    \/ StatusRaises(card)
    \/ Truthy(card.credit_limit) /\ card.credit_limit.t # "num"
    \/ AnnualFee(card).t # "num"
    \/ HasUtilization(card) /\ card.current_balance.t # "num"
    \/ HasUtilization(card) /\ card.credit_limit = Num(0)

UtilizationEntry(card) ==
    [card_name |-> CardName(card),
     utilization |-> RoundDivSigned(card.current_balance.n * 1000, card.credit_limit.n),
     balance |-> card.current_balance.n,
     limit |-> card.credit_limit.n]

\* the records before the last, and the last
Front(seq) == SubSeq(seq, 1, Len(seq) - 1)

Last(seq) == seq[Len(seq)]

\* list.append(x) under a condition
AppendIf(seq, cond, x) == IF cond THEN Append(seq, x) ELSE seq

\* utilization entries only for the records that have an open date
RECURSIVE UtilizationAppended_DatedOnly(_)
UtilizationAppended_DatedOnly(cards) ==
    IF cards = <<>> THEN <<>>
    ELSE AppendIf(UtilizationAppended_DatedOnly(Front(cards)),
                  HasUtilization(Last(cards)) /\ OpenDatePortfolio(Last(cards)).dt.ok,
                  UtilizationEntry(Last(cards)))

\* utilization_breakdown as the loop appends to it, in record order
RECURSIVE UtilizationAppended(_)
UtilizationAppended(cards) ==
    IF cards = <<>> THEN <<>>
    ELSE AppendIf(UtilizationAppended(Front(cards)),
                  HasUtilization(Last(cards)),
                  UtilizationEntry(Last(cards)))

\* the sorted list with e put behind its elements of utilization at least
\* least (utilizations are whole tenths of a percent)
InsertAfter(sorted, least, e) ==
    SelectSeq(sorted, LAMBDA x : x.utilization >= least)
        \o <<e>> \o SelectSeq(sorted, LAMBDA x : x.utilization < least)

\* sorted(..., key=utilization)[::-1]: equal entries end up in reverse order
RECURSIVE SortedByUtilization_Reversed(_)
SortedByUtilization_Reversed(entries) ==
    IF entries = <<>> THEN <<>>
    ELSE InsertAfter(SortedByUtilization_Reversed(Front(entries)),
                     Last(entries).utilization + 1,
                     Last(entries))

\* sorted(..., key=utilization, reverse=True): stable, so an entry goes
\* behind every earlier entry that is not smaller
RECURSIVE SortedByUtilization(_)
SortedByUtilization(entries) ==
    IF entries = <<>> THEN <<>>
    ELSE InsertAfter(SortedByUtilization(Front(entries)),
                     Last(entries).utilization,
                     Last(entries))

\* fee_cards with the fee tested for truth: any fee other than 0 is listed
RECURSIVE FeeCards_NonZero(_)
FeeCards_NonZero(cards) ==
    IF cards = <<>> THEN <<>>
    ELSE AppendIf(FeeCards_NonZero(Front(cards)),
                  AnnualFee(Last(cards)).n # 0,
                  [card_name |-> CardName(Last(cards)), annual_fee |-> AnnualFee(Last(cards)).n])

RECURSIVE FeeCards(_)
FeeCards(cards) ==
    IF cards = <<>> THEN <<>>
    ELSE AppendIf(FeeCards(Front(cards)),
                  AnnualFee(Last(cards)).n > 0,
                  [card_name |-> CardName(Last(cards)), annual_fee |-> AnnualFee(Last(cards)).n])

RECURSIVE NoFeeCards(_)
NoFeeCards(cards) ==
    IF cards = <<>> THEN <<>>
    ELSE AppendIf(NoFeeCards(Front(cards)),
                  ~(AnnualFee(Last(cards)).n > 0),
                  CardName(Last(cards)))

RECURSIVE SumOver(_, _)
SumOver(f, S) ==
    IF S = {} THEN 0
    ELSE LET x == CHOOSE y \in S : TRUE IN f[x] + SumOver(f, S \ {x})

\* oldest_card_date after the loop: replaced only by a strictly earlier date
Older(oldest_card_date, open_date) ==
    IF open_date.ok /\ (~oldest_card_date.ok \/ Ordinal(open_date) < Ordinal(oldest_card_date))
    THEN open_date ELSE oldest_card_date

RECURSIVE OldestCardDate(_)
OldestCardDate(cards) ==
    IF cards = <<>> THEN NoDate
    ELSE Older(OldestCardDate(Front(cards)), OpenDatePortfolio(Last(cards)).dt)

\* newest_card_date after the loop: replaced only by a strictly later date
Newer(newest_card_date, open_date) ==
    IF open_date.ok /\ (~newest_card_date.ok \/ Ordinal(open_date) > Ordinal(newest_card_date))
    THEN open_date ELSE newest_card_date

RECURSIVE NewestCardDate(_)
NewestCardDate(cards) ==
    IF cards = <<>> THEN NoDate
    ELSE Newer(NewestCardDate(Front(cards)), OpenDatePortfolio(Last(cards)).dt)

DigitChar(n) ==
    CASE n = 0 -> "0" [] n = 1 -> "1" [] n = 2 -> "2" [] n = 3 -> "3" [] n = 4 -> "4"
      [] n = 5 -> "5" [] n = 6 -> "6" [] n = 7 -> "7" [] n = 8 -> "8" [] n = 9 -> "9"

RECURSIVE DecimalDigits(_)
DecimalDigits(n) ==
    IF n < 10 THEN <<DigitChar(n)>> ELSE Append(DecimalDigits(n \div 10), DigitChar(n % 10))

\* dt.strftime('%Y-%m-%d'): %m and %d are padded to two digits; the C
\* library the interpreter runs on (glibc) writes %Y without padding
strftime(dt) ==
    DecimalDigits(dt.y) \o <<"-", DigitChar(dt.m \div 10), DigitChar(dt.m % 10),
                             "-", DigitChar(dt.d \div 10), DigitChar(dt.d % 10)>>

\* (datetime.now() - oldest_card_date).days / 30.44, rounded to one decimal
AvgAgeMonths(oldest, clock) ==
    IF oldest.ok
    THEN Num(RoundDivSigned((clock.day - Ordinal(oldest)) * 1000, 3044))
    ELSE Null

\* round(avg_age_months / 12, 1) if avg_age_months else None
AvgAgeYears(avg_age_months) ==
    IF Truthy(avg_age_months) THEN Num(RoundDivSigned(avg_age_months.n, 12)) ELSE Null

\* d.strftime('%Y-%m-%d') if d else None
DateOrNone(dt) == IF dt.ok THEN Str(strftime(dt)) ELSE Null

AgeAnalysisOf(oldest_card_date, newest_card_date, avg_age_months) ==
    [oldest_card_date |-> DateOrNone(oldest_card_date),
     newest_card_date |-> DateOrNone(newest_card_date),
     average_age_months |-> avg_age_months,
     average_age_years |-> AvgAgeYears(avg_age_months)]

AgeAnalysis(cards, clock) ==
    AgeAnalysisOf(OldestCardDate(cards),
                  NewestCardDate(cards),
                  AvgAgeMonths(OldestCardDate(cards), clock))

Indices(cards) == 1..Len(cards)

\* annual_fees without its two counts
AnnualFees_NoCounts(total_annual_fees, fee_cards, no_fee_cards) ==
    [total |-> total_annual_fees,
     fee_cards |-> fee_cards,
     no_fee_cards |-> no_fee_cards]

AnnualFees(total_annual_fees, fee_cards, no_fee_cards) ==
    [total |-> total_annual_fees,
     fee_cards |-> fee_cards,
     no_fee_cards |-> no_fee_cards,
     fee_cards_count |-> Len(fee_cards),
     no_fee_cards_count |-> Len(no_fee_cards)]

\* issuer_limits with a key for every issuer, 0 for one without a limit
IssuerLimits_EveryIssuer(cards) ==
    [k \in {Issuer(cards[i]) : i \in Indices(cards)} |->
        SumOver([i \in Indices(cards) |->
                    IF Truthy(cards[i].credit_limit) THEN cards[i].credit_limit.n ELSE 0],
                {i \in Indices(cards) : Issuer(cards[i]) = k})]

\* issuer_limits after the loop: a key for each issuer with a record whose
\* credit_limit is true, the sum of those limits as value
IssuerLimits(cards) ==
    [k \in {Issuer(cards[i]) : i \in {j \in Indices(cards) : Truthy(cards[j].credit_limit)}} |->
        SumOver([i \in Indices(cards) |->
                    IF Truthy(cards[i].credit_limit) THEN cards[i].credit_limit.n ELSE 0],
                {i \in Indices(cards) : Issuer(cards[i]) = k})]

\* kind "raised": an exception leaves the function; "empty": the {} of the
\* first return; "report": the dict of the final return, in field report
analyze_credit_portfolio(cards, clock) ==
    IF cards = <<>>
    THEN [kind |-> "empty"]
    ELSE IF \E i \in Indices(cards) : PortfolioRaises(cards[i])
    THEN [kind |-> "raised"]
    ELSE LET issuers == {Issuer(cards[i]) : i \in Indices(cards)}
             feeAt == [i \in Indices(cards) |-> AnnualFee(cards[i]).n]
         IN  [kind |-> "report",
              report |->
                [issuer_breakdown |->
                     [k \in issuers |-> Cardinality({i \in Indices(cards) : Issuer(cards[i]) = k})],
                 issuer_limits |-> IssuerLimits(cards),
                 annual_fees |->
                     AnnualFees(SumOver(feeAt, Indices(cards)), FeeCards(cards), NoFeeCards(cards)),
                 utilization_breakdown |-> SortedByUtilization(UtilizationAppended(cards)),
                 age_analysis |-> AgeAnalysis(cards, clock),
                 portfolio_stats |->
                     [total_cards |-> Len(cards),
                      active_cards |-> Cardinality({i \in Indices(cards) : StatusLower(cards[i]) = sActive}),
                      closed_cards |-> Cardinality({i \in Indices(cards) : StatusLower(cards[i]) = sClosed}),
                      unique_issuers |-> Cardinality(issuers)]]]

----------------------------------------------------------------------------
(* get_dashboard_stats *)

\* db.credit_cards.find({"user_id": u}): the user's documents, in store order
FindByUser(store, u) == SelectSeq(store, LAMBDA doc : doc.user_id = u)

sNA == <<"N", "/", "A">>

EmptyAgeAnalysis ==
    [oldest_card_date |-> Null,
     newest_card_date |-> Null,
     average_age_months |-> Null,
     average_age_years |-> Null]

\* the literal returned under "if not cards"
DefaultPayload ==
    [total_cards |-> 0,
     active_cards |-> 0,
     closed_cards |-> 0,
     average_age_years |-> Str(sNA),
     total_credit_limit |-> 0,
     total_balance |-> 0,
     credit_utilization |-> 0,
     total_annual_fees |-> 0,
     five_24_status |->
         [cards_in_24_months |-> 0,
          is_eligible |-> TRUE,
          remaining_slots |-> 5,
          status |-> "Eligible",
          recommendation |-> "No cards found to analyze",
          recent_cards |-> <<>>],
     portfolio_analysis |->
         [issuer_breakdown |-> <<>>,
          issuer_limits |-> <<>>,
          annual_fees |->
              [total |-> 0,
               fee_cards |-> <<>>,
               no_fee_cards |-> <<>>,
               fee_cards_count |-> 0,
               no_fee_cards_count |-> 0],
          utilization_breakdown |-> <<>>,
          age_analysis |-> EmptyAgeAnalysis,
          portfolio_stats |->
              [total_cards |-> 0,
               active_cards |-> 0,
               closed_cards |-> 0,
               unique_issuers |-> 0]],
     top_utilization_cards |-> <<>>,
     issuer_breakdown |-> <<>>,
     age_analysis |-> EmptyAgeAnalysis]

\* the statements of get_dashboard_stats itself that raise on this record:
\* .lower() of a status that is no string, sum() over a string amount
StatsRaises(card) ==
    \/ StatusRaises(card)
    \/ OrZero(card, "credit_limit").t # "num"
    \/ OrZero(card, "current_balance").t # "num"

\* high_util_cards without the slice
FirstThree_All(seq) == seq

\* high_util_cards[:3]
FirstThree(seq) == SubSeq(seq, 1, IF Len(seq) < 3 THEN Len(seq) ELSE 3)

\* the payload with closed_cards counted by status, as portfolio_stats does
StatsPayload_ClosedByStatus(cards, total_credit_limit, total_balance, five_24_status, report) ==
    [total_cards |-> Len(cards),
     active_cards |-> Cardinality({i \in Indices(cards) : StatusLower(cards[i]) = sActive}),
     closed_cards |-> Cardinality({i \in Indices(cards) : StatusLower(cards[i]) = sClosed}),
     average_age_years |-> report.age_analysis.average_age_years,
     total_credit_limit |-> total_credit_limit,
     total_balance |-> total_balance,
     credit_utilization |->
         IF total_credit_limit > 0
         THEN RoundDivSigned(total_balance * 1000, total_credit_limit)
         ELSE 0,
     total_annual_fees |-> report.annual_fees.total,
     five_24_status |-> five_24_status,
     portfolio_analysis |-> report,
     top_utilization_cards |->
         FirstThree(SelectSeq(report.utilization_breakdown, LAMBDA e : e.utilization > 300)),
     issuer_breakdown |-> report.issuer_breakdown,
     age_analysis |-> report.age_analysis]

\* the dict of the final return statement
StatsPayload(cards, total_credit_limit, total_balance, five_24_status, report) ==
    [total_cards |-> Len(cards),
     active_cards |-> Cardinality({i \in Indices(cards) : StatusLower(cards[i]) = sActive}),
     closed_cards |->
         Len(cards) - Cardinality({i \in Indices(cards) : StatusLower(cards[i]) = sActive}),
     average_age_years |-> report.age_analysis.average_age_years,
     total_credit_limit |-> total_credit_limit,
     total_balance |-> total_balance,
     credit_utilization |->
         IF total_credit_limit > 0
         THEN RoundDivSigned(total_balance * 1000, total_credit_limit)
         ELSE 0,
     total_annual_fees |-> report.annual_fees.total,
     five_24_status |-> five_24_status,
     portfolio_analysis |-> report,
     top_utilization_cards |->
         FirstThree(SelectSeq(report.utilization_breakdown, LAMBDA e : e.utilization > 300)),
     issuer_breakdown |-> report.issuer_breakdown,
     age_analysis |-> report.age_analysis]

\* the sum over the records that have a limit only
SumOrZero_WithLimitOnly(cards, key) ==
    SumOver([i \in Indices(cards) |-> OrZero(cards[i], key).n],
            {i \in Indices(cards) : Truthy(cards[i].credit_limit)})

\* sum([card.get(key, 0) or 0 for card in cards])
SumOrZero(cards, key) ==
    SumOver([i \in Indices(cards) |-> OrZero(cards[i], key).n], Indices(cards))

\* the response once both functions were called: the exception of
\* analyze_credit_portfolio reaches the except branch
StatsResponse(cards, five_24_status, portfolio_analysis) ==
    IF portfolio_analysis.kind = "raised"
    THEN [status |-> 500]
    ELSE [status |-> 200,
          body |-> StatsPayload(cards,
                                SumOrZero(cards, "credit_limit"),
                                SumOrZero(cards, "current_balance"),
                                five_24_status,
                                portfolio_analysis.report)]

\* the handler with an error response in place of the default payload
get_dashboard_stats_NoDefault(cards, clock) ==
    IF cards = <<>> \/ \E i \in Indices(cards) : StatsRaises(cards[i])
    THEN [status |-> 500]
    ELSE StatsResponse(cards,
                       calculate_5_24_status(cards, clock),
                       analyze_credit_portfolio(cards, clock))

\* the handler on the snapshot cards: status 500 is the HTTPException of the
\* except branch, status 200 carries the returned dict in body
get_dashboard_stats(cards, clock) ==
    IF cards = <<>>
    THEN [status |-> 200, body |-> DefaultPayload]
    ELSE IF \E i \in Indices(cards) : StatsRaises(cards[i])
    THEN [status |-> 500]
    ELSE StatsResponse(cards,
                       calculate_5_24_status(cards, clock),
                       analyze_credit_portfolio(cards, clock))

----------------------------------------------------------------------------
(* the inputs *)

\* the day of the clock in the initial states: 2024-06-01
RefDay == Ordinal([ok |-> TRUE, y |-> 2024, m |-> 6, d |-> 1])

\* the clock at midnight and later in the day
Clocks == {[day |-> RefDay, tod |-> 0], [day |-> RefDay, tod |-> 1]}

\* "2022-06-13": 719 days before RefDay
d719 == <<"2", "0", "2", "2", "-", "0", "6", "-", "1", "3">>

\* "2022-06-12": 720 days before RefDay: the day of the cutoff
d720 == <<"2", "0", "2", "2", "-", "0", "6", "-", "1", "2">>

\* "2022-06-11": 721 days before RefDay
d721 == <<"2", "0", "2", "2", "-", "0", "6", "-", "1", "1">>

\* "2024-01-15"
dRecent == <<"2", "0", "2", "4", "-", "0", "1", "-", "1", "5">>

\* "2010-01-01"
dOld == <<"2", "0", "1", "0", "-", "0", "1", "-", "0", "1">>

\* "2030-01-01": after RefDay
dFuture == <<"2", "0", "3", "0", "-", "0", "1", "-", "0", "1">>

\* "2024-6-1": RefDay itself, not zero-padded
dUnpadded == <<"2", "0", "2", "4", "-", "6", "-", "1">>

\* "01/2024": %m/%Y
dSlash == <<"0", "1", "/", "2", "0", "2", "4">>

\* "2023-05": %Y-%m
dYearMonth == <<"2", "0", "2", "3", "-", "0", "5">>

\* "01-15-2024": %m-%d-%Y
dMonthDayYear == <<"0", "1", "-", "1", "5", "-", "2", "0", "2", "4">>

\* "2023-02-29": no such day
dBadDay == <<"2", "0", "2", "3", "-", "0", "2", "-", "2", "9">>

\* "n/a": matches no format
dGarbage == <<"n", "/", "a">>

\* "2024-01-01"
dNewYear == <<"2", "0", "2", "4", "-", "0", "1", "-", "0", "1">>

\* "0999-01-01": a year of fewer than four digits, zero-padded
dYear999 == <<"0", "9", "9", "9", "-", "0", "1", "-", "0", "1">>

stActive == <<"A", "c", "t", "i", "v", "e">>

stUpper == <<"A", "C", "T", "I", "V", "E">>

stClosed == <<"C", "l", "o", "s", "e", "d">>

stClosedMixed == <<"c", "L", "o", "S", "e", "D">>

stUnknown == <<"U", "n", "k", "n", "o", "w", "n">>

\* the user whose documents the collection holds
Owner == "u1"

\* a record of the snapshot, before the store gives it an owner and an id
Card(card_name, issuer, status, open_date, credit_limit, current_balance, annual_fee) ==
    [card_name |-> Str(<<card_name>>),
     issuer |-> Str(<<issuer>>),
     status |-> status,
     open_date |-> open_date,
     credit_limit |-> credit_limit,
     current_balance |-> current_balance,
     annual_fee |-> annual_fee]

\* the lists over S of at most n elements
RECURSIVE ListsUpTo(_, _)
ListsUpTo(S, n) ==
    IF n = 0 THEN {<<>>}
    ELSE LET shorter == ListsUpTo(S, n - 1)
         IN  shorter \cup {Append(l, x) : l \in {m \in shorter : Len(m) = n - 1}, x \in S}

MaxCountCards == 6

MaxCards == 2

MaxUtilCards == 3

\* the most records of a list that varies the open date over all its values
MaxDateCards == 1

\* records for the count: active and recent, active and old
CountCards ==
    {Card("A", "X", Str(stActive), Str(dRecent), Num(1000), Num(500), Num(0)),
     Card("B", "Y", Str(stActive), Str(dOld), Num(1000), Num(500), Num(0))}

\* records that differ in the status field
StatusValues ==
    {Str(stActive), Str(stUpper), Str(stClosed), Str(stClosedMixed), Str(stUnknown), Null, Absent}

StatusCards ==
    {Card("A", "X", st, Str(dRecent), Num(1000), Num(500), Num(95)) : st \in StatusValues}
        \cup {Card("B", "Y", st, Str(dOld), Num(1000), Num(500), Num(95)) : st \in {Str(stActive), Str(stClosed)}}

\* records that differ in the open date
DateValues ==
    {Str(d) : d \in {d719, d720, d721, dFuture, dUnpadded, dSlash, dYearMonth,
                     dMonthDayYear, dBadDay, dGarbage, sUnknown, <<>>, dYear999}}

DateCards ==
    {Card("A", "X", Str(stActive), d, Num(1000), Num(500), Num(95)) : d \in DateValues}

\* records for the order of the dates in a list
PairDateCards ==
    {Card("A", "X", Str(stActive), Str(d), Num(1000), Num(500), Num(95)) :
        d \in {dGarbage, dSlash, d720, d719}}

\* records that differ in utilization: 50, 50, 0 and 25 percent
UtilCards ==
    {Card("A", "X", Str(stActive), Str(dRecent), Num(1000), Num(500), Num(0)),
     Card("B", "X", Str(stActive), Str(dRecent), Num(2000), Num(1000), Num(0)),
     Card("C", "X", Str(stActive), Str(dRecent), Num(1000), Num(0), Num(0)),
     Card("D", "Y", Str(stActive), Str(dRecent), Num(2000), Num(500), Num(0))}

\* records with and without a limit and a balance
EntryCards ==
    {Card("C", "X", Str(stActive), Str(dRecent), Num(1000), Num(0), Num(0)),
     Card("E", "Y", Str(stActive), Str(dRecent), Null, Num(500), Num(0)),
     Card("F", "Z", Str(stActive), Str(dRecent), Num(0), Num(500), Num(0)),
     Card("G", "Z", Str(stActive), Str(dRecent), Num(1000), Null, Num(0))}

\* records with and without an open date, amounts and fee
BlankDateCards ==
    {Card(p[1], p[2], Str(stActive), d, p[3], p[4], p[5]) :
        p \in {<<"A", "X", Num(1000), Num(500), Num(95)>>, <<"B", "Y", Null, Null, Null>>},
        d \in {Str(<<>>), Str(sUnknown), Str(dRecent), Str(dOld)}}

\* records at 30.0, 50.0 and 90.0 percent
MaxTopCards == 4

TopCards ==
    {Card("P", "X", Str(stActive), Str(dRecent), Num(1000), Num(300), Num(0)),
     Card("Q", "X", Str(stActive), Str(dRecent), Num(1000), Num(500), Num(0)),
     Card("R", "Y", Str(stActive), Str(dRecent), Num(1000), Num(900), Num(0))}

\* a record without limit, balance and fee, and one with them
MissingCards ==
    {Card("A", "X", Str(stActive), Str(dRecent), Num(1000), Num(500), Num(95)),
     Card("I", "Y", Str(stActive), Str(dRecent), Absent, Absent, Absent)}

\* records that differ in the annual fee: none, null, 0, two fees, a credit
FeeValueCards ==
    {Card("A", "X", Str(stActive), Str(dRecent), Num(1000), Num(500), Num(95)),
     Card("B", "X", Str(stActive), Str(dRecent), Num(1000), Num(500), Num(550)),
     Card("C", "Y", Str(stActive), Str(dRecent), Num(1000), Num(500), Num(0)),
     Card("D", "Y", Str(stActive), Str(dRecent), Num(1000), Num(500), Null),
     Card("E", "Y", Str(stActive), Str(dRecent), Num(1000), Num(500), Absent),
     Card("F", "Z", Str(stActive), Str(dRecent), Num(1000), Num(500), Num(0 - 50))}

\* records with a field of the wrong type
WrongTypeCards ==
    {Card("A", "X", Str(stActive), Str(dRecent), Num(1000), Num(500), Num(95)),
     Card("B", "X", Null, Str(dRecent), Num(1000), Num(500), Num(95)),
     Card("C", "X", Num(1), Str(dRecent), Num(1000), Num(500), Num(95)),
     Card("D", "X", Str(stActive), Str(dRecent), Str(<<"x">>), Num(500), Num(95)),
     Card("E", "X", Str(stActive), Str(dRecent), Num(1000), Str(<<"x">>), Num(95)),
     Card("F", "X", Str(stActive), Str(dRecent), Null, Str(<<"x">>), Num(95)),
     Card("G", "X", Str(stActive), Str(dRecent), Num(1000), Num(500), Str(<<"x">>)),
     Card("H", "X", Null, Str(sUnknown), Num(1000), Num(500), Num(95))}

\* the two records of the worked example, in its order
ExampleCards ==
    <<Card("A", "X", Str(stActive), Str(dNewYear), Num(1000), Num(500), Num(0)),
      Card("B", "Y", Str(stActive), Str(dOld), Num(2000), Num(0), Num(95))>>

Snapshots ==
    ListsUpTo(CountCards, MaxCountCards)
        \cup ListsUpTo(StatusCards, MaxCards)
        \cup ListsUpTo(DateCards, MaxDateCards)
        \cup ListsUpTo(PairDateCards, MaxCards)
        \cup ListsUpTo(UtilCards, MaxUtilCards)
        \cup ListsUpTo(EntryCards, MaxUtilCards)
        \cup ListsUpTo(BlankDateCards, MaxCards)
        \cup ListsUpTo(WrongTypeCards, MaxCards)
        \cup {ExampleCards}
        \cup ListsUpTo(FeeValueCards, MaxCards)
        \cup ListsUpTo(MissingCards, MaxCards)
        \cup ListsUpTo(TopCards, MaxTopCards)

\* a snapshot as documents of the collection owned by u
Stored(cards, u) ==
    [i \in 1..Len(cards) |->
        [user_id |-> u, id |-> i] @@ cards[i]]

----------------------------------------------------------------------------
(* the state machine *)

NoCall == [op |-> "none"]

\* the collection as found when the server starts: the documents of one owner
Init ==
    /\ db \in {Stored(cards, Owner) : cards \in Snapshots}
    /\ now \in Clocks
    /\ resp = NoCall

\* a call of calculate_5_24_status on the documents of user u
Calculate524(u) ==
    /\ resp' = [op |-> "calculate_5_24_status",
                user |-> u,
                cards |-> FindByUser(db, u),
                now |-> now,
                out |-> calculate_5_24_status(FindByUser(db, u), now)]
    /\ UNCHANGED <<db, now>>

\* a call of analyze_credit_portfolio on the documents of user u
AnalyzePortfolio(u) ==
    /\ resp' = [op |-> "analyze_credit_portfolio",
                user |-> u,
                cards |-> FindByUser(db, u),
                now |-> now,
                out |-> analyze_credit_portfolio(FindByUser(db, u), now)]
    /\ UNCHANGED <<db, now>>

\* GET /api/dashboard-stats by user u
DashboardStats(u) ==
    /\ resp' = [op |-> "get_dashboard_stats",
                user |-> u,
                cards |-> FindByUser(db, u),
                now |-> now,
                out |-> get_dashboard_stats(FindByUser(db, u), now)]
    /\ UNCHANGED <<db, now>>

Next ==
    \/ Calculate524(Owner)
    \/ AnalyzePortfolio(Owner)
    \/ DashboardStats(Owner)

Spec == Init /\ [][Next]_vars

----------------------------------------------------------------------------
(* the routes that read and write the collection *)

Users == {"u1", "u2"}

\* the most documents the collection holds
MaxStore == 3

\* the most records one uploaded report yields
MaxUpload == 2

\* CreditCard(...): the str fields take a string only, the Optional[float]
\* fields a number or None
Validates(card) ==
    /\ \A k \in {"card_name", "issuer", "open_date", "status"} : card[k].t = "str"
    /\ \A k \in {"credit_limit", "current_balance", "annual_fee"} : card[k].t \in {"num", "null"}

\* the records the requests carry: one that validates and one whose status
\* is null
ApiCard == Card("A", "X", Str(stActive), Str(dRecent), Num(1000), Num(500), Num(95))

BadCard == Card("B", "X", Null, Str(dRecent), Num(1000), Num(500), Num(95))

\* the id a client may put in the body of a create request; 0 is no id
ClientIds == {0, 1}

\* uuid.uuid4(): an id no document of the collection has and no client
\* sends; the least such number stands for it
NewId(store) ==
    CHOOSE n \in 2..(Len(store) + 2) :
        /\ \A i \in 1..Len(store) : store[i].id # n
        /\ \A m \in 2..(n - 1) : \E i \in 1..Len(store) : store[i].id = m

\* card.dict() as inserted for user u with id card_id
Document(card, u, card_id) == [user_id |-> u, id |-> card_id] @@ card

\* the list without its i-th record
Remove(cards, i) == SubSeq(cards, 1, i - 1) \o SubSeq(cards, i + 1, Len(cards))

\* delete_many({"user_id": u}) that deletes every document
DeleteMany_Everyone(store, u) == <<>>

\* delete_many({"user_id": u})
DeleteMany(store, u) == SelectSeq(store, LAMBDA doc : doc.user_id # u)

\* the matches of {"id": card_id, "user_id": u}, as indices
Matching(store, card_id, u) ==
    {i \in 1..Len(store) : store[i].id = card_id /\ store[i].user_id = u}

Least(S) == CHOOSE i \in S : \A j \in S : i <= j

\* delete_one that matches on the id alone
DeleteOne_AnyOwner(store, card_id, u) ==
    IF \E i \in 1..Len(store) : store[i].id = card_id
    THEN [deleted_count |-> 1,
          store |-> Remove(store, Least({i \in 1..Len(store) : store[i].id = card_id}))]
    ELSE [deleted_count |-> 0, store |-> store]

\* delete_one({"id": card_id, "user_id": u}): the first match goes
DeleteOne(store, card_id, u) ==
    IF Matching(store, card_id, u) # {}
    THEN [deleted_count |-> 1, store |-> Remove(store, Least(Matching(store, card_id, u)))]
    ELSE [deleted_count |-> 0, store |-> store]

\* the loop of upload_credit_report over cards_data: a record that does not
\* validate is skipped, the others are inserted for u under new ids
RECURSIVE InsertParsed(_, _, _)
InsertParsed(store, cards_data, u) ==
    IF cards_data = <<>> THEN store
    ELSE InsertParsed(IF Validates(cards_data[1])
                      THEN Append(store, Document(cards_data[1], u, NewId(store)))
                      ELSE store,
                      Tail(cards_data), u)

InitStore ==
    /\ db = <<>>
    /\ now = [day |-> RefDay, tod |-> 0]
    /\ resp = NoCall

\* GET /api/credit-cards by user u
GetCreditCards(u) ==
    /\ resp' = [op |-> "get_credit_cards", user |-> u, status |-> 200,
                out |-> FindByUser(db, u)]
    /\ UNCHANGED <<db, now>>

\* POST /api/credit-cards by user u: the body names an owner and maybe an id
CreateCreditCard(u, card, body_user, body_id) ==
    /\ Len(db) < MaxStore
    /\ Validates(card)
    /\ db' = Append(db, Document(card, u, IF body_id = 0 THEN NewId(db) ELSE body_id))
    /\ resp' = [op |-> "create_credit_card", user |-> u, status |-> 200,
                out |-> <<db'[Len(db')]>>]
    /\ UNCHANGED now

\* POST /api/upload-credit-report by user u: file is "not_pdf", "no_text" or
\* "parsed", the last with the records cards_data
UploadCreditReport(u, file, cards_data) ==
    /\ Len(db) + Len(cards_data) <= MaxStore
    /\ IF file = "parsed"
       THEN /\ db' = InsertParsed(db, cards_data, u)
            /\ resp' = [op |-> "upload_credit_report", user |-> u, status |-> 200,
                        out |-> SubSeq(db', Len(db) + 1, Len(db'))]
       ELSE /\ db' = db
            /\ resp' = [op |-> "upload_credit_report", user |-> u, status |-> 400,
                        out |-> <<>>]
    /\ UNCHANGED now

\* DELETE /api/credit-cards/{card_id} by user u
DeleteCreditCard(u, card_id) ==
    /\ db' = DeleteOne(db, card_id, u).store
    /\ resp' = [op |-> "delete_credit_card", user |-> u,
                status |-> IF DeleteOne(db, card_id, u).deleted_count = 0 THEN 404 ELSE 200,
                out |-> <<>>]
    /\ UNCHANGED now

\* DELETE /api/credit-cards by user u
ClearAllCards(u) ==
    /\ db' = DeleteMany(db, u)
    /\ resp' = [op |-> "clear_all_cards", user |-> u, status |-> 200, out |-> <<>>]
    /\ UNCHANGED now

NextStore ==
    \/ \E u \in Users : GetCreditCards(u)
    \/ \E u \in Users, body_user \in Users, body_id \in ClientIds :
          CreateCreditCard(u, ApiCard, body_user, body_id)
    \/ \E u \in Users, file \in {"not_pdf", "no_text"} : UploadCreditReport(u, file, <<>>)
    \/ \E u \in Users, cards_data \in ListsUpTo({ApiCard, BadCard}, MaxUpload) :
          UploadCreditReport(u, "parsed", cards_data)
    \/ \E u \in Users, card_id \in 1..(MaxStore + 1) : DeleteCreditCard(u, card_id)
    \/ \E u \in Users : ClearAllCards(u)

SpecStore == InitStore /\ [][NextStore]_vars

----------------------------------------------------------------------------
(* the claims *)

IsCalculate == resp.op = "calculate_5_24_status"

IsAnalyze == resp.op = "analyze_credit_portfolio"

IsDashboard == resp.op = "get_dashboard_stats"

\* the call of analyze_credit_portfolio returned its report
IsReport == IsAnalyze /\ resp.out.kind = "report"

\* the status is a string equal to "active" up to the case of its letters
IsActiveCI(card) ==
    /\ card.status.t = "str"
    /\ Len(card.status.s) = 6
    /\ card.status.s[1] \in {"a", "A"} /\ card.status.s[2] \in {"c", "C"}
    /\ card.status.s[3] \in {"t", "T"} /\ card.status.s[4] \in {"i", "I"}
    /\ card.status.s[5] \in {"v", "V"} /\ card.status.s[6] \in {"e", "E"}

\* C1: when calculate_5_24_status completes normally, with n the count it
\* reports: is_eligible is n < 5, remaining_slots is 5 - n up to n = 5 and 0
\* from there on, and status is "Eligible" exactly when eligible, "Not
\* Eligible" otherwise.
C1_EligibilityFromCount ==
    (IsCalculate /\ \A i \in Indices(resp.cards) : resp.cards[i].status.t \in {"str", "absent"}) =>
        LET n == resp.out.cards_in_24_months
        IN  /\ n = Len(resp.out.recent_cards)
            /\ resp.out.is_eligible = (n < 5)
            /\ n <= 5 => resp.out.remaining_slots + n = 5
            /\ n >= 5 => resp.out.remaining_slots = 0
            /\ resp.out.is_eligible => resp.out.status = "Eligible"
            /\ ~resp.out.is_eligible => resp.out.status = "Not Eligible"

\* six recent active records: not eligible, no slot left
C1_Witness ==
    /\ IsCalculate
    /\ resp.out.cards_in_24_months = 6
    /\ ~resp.out.is_eligible
    /\ resp.out.remaining_slots = 0
    /\ resp.out.status = "Not Eligible"

\* C2: when a record makes calculate_5_24_status fail (its status is null or
\* not a string), the call still returns, and returns the degraded report:
\* count 0, eligible, 5 slots, no recent cards, status "Unknown".
C2_FailsOpen ==
    (IsCalculate /\ \E i \in Indices(resp.cards) : resp.cards[i].status.t \in {"null", "num"}) =>
        resp.out = [cards_in_24_months |-> 0,
                    is_eligible |-> TRUE,
                    remaining_slots |-> 5,
                    recent_cards |-> <<>>,
                    status |-> "Unknown",
                    recommendation |-> "Unable to calculate 5/24 status"]

\* a null status next to a recent active record
C2_Witness ==
    /\ IsCalculate
    /\ \E i \in Indices(resp.cards) : resp.cards[i].status = Null
    /\ \E i \in Indices(resp.cards) :
          IsActiveCI(resp.cards[i]) /\ resp.cards[i].open_date = Str(dRecent)
    /\ resp.out.status = "Unknown"

\* the records of the call that are active and whose open date parses to a
\* day the predicate InWindow(day of the open date) accepts
CountedWhere(InWindow(_)) ==
    Cardinality({i \in Indices(resp.cards) :
        /\ IsActiveCI(resp.cards[i])
        /\ OpenDate524(resp.cards[i]).dt.ok
        /\ InWindow(Ordinal(OpenDate524(resp.cards[i]).dt))})

CompletedNormally ==
    IsCalculate /\ \A i \in Indices(resp.cards) : resp.cards[i].status.t \in {"str", "absent"}

\* C3 as stated: a record is counted exactly when it was opened at most 720
\* days before the current date, the day 720 days back included.
C3_AsStated ==
    CompletedNormally =>
        LET InWindow(day) == day >= resp.now.day - 720
        IN  resp.out.cards_in_24_months = CountedWhere(InWindow)

\* C3: an active record whose open date parses is counted exactly when its
\* open date (a midnight) is not before the clock's reading minus 720 days:
\* opened 719 days before the current date or later it is counted, with no
\* upper bound; opened exactly 720 days before, it is counted only when the
\* clock reads midnight exactly; opened 721 days before or earlier, never.
C3_CutoffKeepsTimeOfDay ==
    CompletedNormally =>
        LET InWindow(day) ==
                \/ day >= resp.now.day - 719
                \/ day = resp.now.day - 720 /\ resp.now.tod = 0
        IN  resp.out.cards_in_24_months = CountedWhere(InWindow)

\* after midnight, the record opened 720 days back is left out and the one
\* opened 719 days back is counted
C3_Witness ==
    /\ IsCalculate
    /\ resp.now.tod > 0
    /\ Len(resp.cards) = 2
    /\ resp.cards[1].open_date = Str(d720) /\ IsActiveCI(resp.cards[1])
    /\ resp.cards[2].open_date = Str(d719) /\ IsActiveCI(resp.cards[2])
    /\ resp.out.cards_in_24_months = 1
    /\ resp.out.recent_cards[1].open_date = Str(d719)

\* C4: a record whose status is not "active" up to letter case is never in
\* recent_cards nor in the count, whatever its open date: the count is at
\* most the number of active records, and taking such a record out of the
\* list leaves the report as it is.
C4_OnlyActiveCounted ==
    IsCalculate =>
        /\ resp.out.cards_in_24_months
              <= Cardinality({i \in Indices(resp.cards) : IsActiveCI(resp.cards[i])})
        /\ \A i \in Indices(resp.cards) :
              (resp.cards[i].status.t \in {"str", "absent"} /\ ~IsActiveCI(resp.cards[i])) =>
                  resp.out = calculate_5_24_status(Remove(resp.cards, i), resp.now)

\* a recent record with status "cLoSeD" next to a recent active one: one counted
C4_Witness ==
    /\ IsCalculate
    /\ Len(resp.cards) = 2
    /\ resp.cards[1].status = Str(stClosedMixed) /\ resp.cards[1].open_date = Str(dRecent)
    /\ IsActiveCI(resp.cards[2]) /\ resp.cards[2].open_date = Str(dRecent)
    /\ resp.out.cards_in_24_months = 1

\* the open date is empty or the literal "Unknown"
BlankDate(card) == card.open_date \in {Str(<<>>), Str(sUnknown)}

\* the list with the open date of its i-th record replaced by d
WithOpenDate(cards, i, d) == [cards EXCEPT ![i].open_date = d]

\* the age analysis of a result of analyze_credit_portfolio, {} having none
AgeOf(result) ==
    IF result.kind = "report" THEN result.report.age_analysis ELSE EmptyAgeAnalysis

SameAggregates(a, b) ==
    /\ a.issuer_breakdown = b.issuer_breakdown
    /\ a.issuer_limits = b.issuer_limits
    /\ a.annual_fees = b.annual_fees
    /\ a.utilization_breakdown = b.utilization_breakdown

\* C5: a record whose open_date is empty or "Unknown" changes neither the
\* age analysis (oldest, newest, average age) nor the recent-window report:
\* whenever the loop runs to its end both are what they are without the
\* record, and the recent-window report is in every case the one of the
\* record dated outside the window.  It is counted in
\* issuer_breakdown, issuer_limits, annual_fees and utilization_breakdown
\* exactly as the same record with a valid open date is.
C5_BlankDateFrame ==
    /\ IsReport =>
          \A i \in Indices(resp.cards) : BlankDate(resp.cards[i]) =>
              /\ resp.out.report.age_analysis
                    = AgeOf(analyze_credit_portfolio(Remove(resp.cards, i), resp.now))
              /\ SameAggregates(resp.out.report,
                    analyze_credit_portfolio(WithOpenDate(resp.cards, i, Str(dOld)), resp.now).report)
    /\ IsCalculate =>
          \A i \in Indices(resp.cards) : BlankDate(resp.cards[i]) =>
              /\ resp.out = calculate_5_24_status(WithOpenDate(resp.cards, i, Str(dOld)), resp.now)
              /\ CompletedNormally =>
                    resp.out = calculate_5_24_status(Remove(resp.cards, i), resp.now)

\* a record dated "Unknown" with limit, balance and fee, ahead of a dated
\* record without them: the ages are the second record's, the utilization
\* entry, the fee and both issuers are there
C5_Witness ==
    /\ IsReport
    /\ Len(resp.cards) = 2
    /\ resp.cards[1].open_date = Str(sUnknown)
    /\ resp.cards[2].open_date = Str(dOld)
    /\ resp.out.report.age_analysis.oldest_card_date = Str(dOld)
    /\ resp.out.report.age_analysis.newest_card_date = Str(dOld)
    /\ Len(resp.out.report.utilization_breakdown) = 1
    /\ resp.out.report.utilization_breakdown[1].card_name = resp.cards[1].card_name
    /\ resp.out.report.annual_fees.total = 95
    /\ resp.out.report.issuer_limits[resp.cards[1].issuer] = 1000
    /\ resp.out.report.portfolio_stats.unique_issuers = 2

\* C6: utilization_breakdown is sorted non-increasing by utilization, and
\* the entries of equal utilization are in the order of their records.
C6_SortedStable ==
    IsReport =>
        /\ \A j, k \in 1..Len(resp.out.report.utilization_breakdown) :
              j < k => resp.out.report.utilization_breakdown[j].utilization
                          >= resp.out.report.utilization_breakdown[k].utilization
        /\ Len(resp.out.report.utilization_breakdown) = Len(UtilizationAppended(resp.cards))
        /\ \A j \in 1..Len(resp.out.report.utilization_breakdown) :
              SelectSeq(resp.out.report.utilization_breakdown,
                        LAMBDA e : e.utilization = resp.out.report.utilization_breakdown[j].utilization)
                = SelectSeq(UtilizationAppended(resp.cards),
                        LAMBDA e : e.utilization = resp.out.report.utilization_breakdown[j].utilization)

\* records at 0%, 50%, 50% come out as the two 50% entries in their input
\* order, then the 0% entry
C6_Witness ==
    /\ IsReport
    /\ Len(resp.cards) = 3
    /\ Len(resp.out.report.utilization_breakdown) = 3
    /\ resp.out.report.utilization_breakdown[1].card_name = resp.cards[2].card_name
    /\ resp.out.report.utilization_breakdown[2].card_name = resp.cards[3].card_name
    /\ resp.out.report.utilization_breakdown[3].card_name = resp.cards[1].card_name
    /\ resp.cards[2].card_name # resp.cards[3].card_name
    /\ resp.out.report.utilization_breakdown[1].utilization = 500
    /\ resp.out.report.utilization_breakdown[2].utilization = 500
    /\ resp.out.report.utilization_breakdown[3].utilization = 0

\* C8: on an empty list analyze_credit_portfolio returns its empty result,
\* and get_dashboard_stats for an owner without records answers 200 with
\* the default payload: counts, totals and utilization 0, average_age_years
\* "N/A", five_24_status eligible with 5 slots and "No cards found to
\* analyze", every nested map and list present and empty.
C8_EmptySnapshot ==
    /\ (IsAnalyze /\ resp.cards = <<>>) => resp.out.kind = "empty"
    /\ (IsDashboard /\ resp.cards = <<>>) =>
          /\ resp.out.status = 200
          /\ resp.out.body.total_cards = 0
          /\ resp.out.body.active_cards = 0
          /\ resp.out.body.closed_cards = 0
          /\ resp.out.body.average_age_years = Str(<<"N", "/", "A">>)
          /\ resp.out.body.total_credit_limit = 0
          /\ resp.out.body.total_balance = 0
          /\ resp.out.body.credit_utilization = 0
          /\ resp.out.body.total_annual_fees = 0
          /\ resp.out.body.five_24_status =
                [cards_in_24_months |-> 0, is_eligible |-> TRUE, remaining_slots |-> 5,
                 status |-> "Eligible", recommendation |-> "No cards found to analyze",
                 recent_cards |-> <<>>]
          /\ resp.out.body.portfolio_analysis.issuer_breakdown = <<>>
          /\ resp.out.body.portfolio_analysis.issuer_limits = <<>>
          /\ resp.out.body.portfolio_analysis.annual_fees =
                [total |-> 0, fee_cards |-> <<>>, no_fee_cards |-> <<>>,
                 fee_cards_count |-> 0, no_fee_cards_count |-> 0]
          /\ resp.out.body.portfolio_analysis.utilization_breakdown = <<>>
          /\ resp.out.body.portfolio_analysis.age_analysis =
                [oldest_card_date |-> Null, newest_card_date |-> Null,
                 average_age_months |-> Null, average_age_years |-> Null]
          /\ resp.out.body.portfolio_analysis.portfolio_stats =
                [total_cards |-> 0, active_cards |-> 0, closed_cards |-> 0, unique_issuers |-> 0]
          /\ resp.out.body.top_utilization_cards = <<>>
          /\ resp.out.body.issuer_breakdown = <<>>
          /\ resp.out.body.age_analysis =
                [oldest_card_date |-> Null, newest_card_date |-> Null,
                 average_age_months |-> Null, average_age_years |-> Null]

\* the dashboard of the owner of an empty collection
C8_Witness ==
    /\ IsDashboard
    /\ db = <<>>
    /\ resp.cards = <<>>
    /\ resp.out.status = 200
    /\ resp.out.body.five_24_status.recommendation = "No cards found to analyze"

\* a record analyze_credit_portfolio cannot process: a status that is null
\* or a number, a limit or a fee that is a non-empty string
Unprocessable(card) ==
    \/ card.status.t \in {"null", "num"}
    \/ card.credit_limit.t = "str" /\ card.credit_limit.s # <<>>
    \/ card.annual_fee.t = "str" /\ card.annual_fee.s # <<>>

\* C9: a record that makes analyze_credit_portfolio fail makes the whole
\* call fail (no report, no empty result), and get_dashboard_stats then
\* answers with an error, not a payload; calculate_5_24_status on the same
\* records returns a report, the degraded one when the status is at fault.
C9_FailsHard ==
    /\ (IsAnalyze /\ \E i \in Indices(resp.cards) : Unprocessable(resp.cards[i])) =>
          resp.out.kind = "raised"
    /\ (IsDashboard /\ \E i \in Indices(resp.cards) : Unprocessable(resp.cards[i])) =>
          resp.out.status = 500
    /\ (IsCalculate /\ \E i \in Indices(resp.cards) : Unprocessable(resp.cards[i])) =>
          /\ resp.out.status \in {"Eligible", "Not Eligible", "Unknown"}
          /\ (\E i \in Indices(resp.cards) : resp.cards[i].status.t \in {"null", "num"}) =>
                resp.out.status = "Unknown" /\ resp.out.is_eligible

\* a string fee, which only analyze_credit_portfolio trips over: the
\* dashboard answers 500
C9_Witness ==
    /\ IsDashboard
    /\ resp.out.status = 500
    /\ \E i \in Indices(resp.cards) : resp.cards[i].annual_fee.t = "str"
    /\ \A i \in Indices(resp.cards) :
          /\ resp.cards[i].status.t = "str"
          /\ resp.cards[i].credit_limit.t = "num"
          /\ resp.cards[i].current_balance.t = "num"

Date(y, m, d) == [ok |-> TRUE, y |-> y, m |-> m, d |-> d]

\* what the normalizer is to make of the date strings of the inputs: the
\* number of formats tried and the date
ExpectedOpenDate(s) ==
    CASE s = d719 -> [dt |-> Date(2022, 6, 13), tried |-> 1]
      [] s = d720 -> [dt |-> Date(2022, 6, 12), tried |-> 1]
      [] s = d721 -> [dt |-> Date(2022, 6, 11), tried |-> 1]
      [] s = dRecent -> [dt |-> Date(2024, 1, 15), tried |-> 1]
      [] s = dOld -> [dt |-> Date(2010, 1, 1), tried |-> 1]
      [] s = dFuture -> [dt |-> Date(2030, 1, 1), tried |-> 1]
      [] s = dNewYear -> [dt |-> Date(2024, 1, 1), tried |-> 1]
      [] s = dYear999 -> [dt |-> Date(999, 1, 1), tried |-> 1]
      [] s = dUnpadded -> [dt |-> Date(2024, 6, 1), tried |-> 1]
      [] s = dSlash -> [dt |-> Date(2024, 1, 1), tried |-> 2]
      [] s = dYearMonth -> [dt |-> Date(2023, 5, 1), tried |-> 3]
      [] s = dMonthDayYear -> [dt |-> Date(2024, 1, 15), tried |-> 4]
      [] s = dBadDay -> [dt |-> NoDate, tried |-> 4]
      [] s = dGarbage -> [dt |-> NoDate, tried |-> 4]
      [] s = sUnknown -> [dt |-> NoDate, tried |-> 0]
      [] s = <<>> -> [dt |-> NoDate, tried |-> 0]

DateKey(dt) == dt.y * 10000 + dt.m * 100 + dt.d

\* the records of the call whose date string is to yield a date
Dated(cards) ==
    {i \in Indices(cards) : cards[i].open_date.t = "str" /\ ExpectedOpenDate(cards[i].open_date.s).dt.ok}

\* C10: both loops try %Y-%m-%d, %m/%Y, %Y-%m, %m-%d-%Y in this order and
\* stop at the first format the whole string matches (%m/%Y giving day 1);
\* an empty string or "Unknown" gives no date and no parse is tried; a
\* string no format matches gives no date after four tries, and the
\* records after it are still processed: the oldest date of the report is
\* the earliest date among all records.
C10_Normalizer ==
    /\ \A i \in Indices(db) : db[i].open_date.t = "str" =>
          /\ OpenDate524(db[i]) = ExpectedOpenDate(db[i].open_date.s)
          /\ OpenDatePortfolio(db[i]) = ExpectedOpenDate(db[i].open_date.s)
    /\ IsReport =>
          /\ Dated(resp.cards) = {} => resp.out.report.age_analysis.oldest_card_date = Null
          /\ \A i \in Dated(resp.cards) :
                (\A j \in Dated(resp.cards) :
                    DateKey(ExpectedOpenDate(resp.cards[i].open_date.s).dt)
                       <= DateKey(ExpectedOpenDate(resp.cards[j].open_date.s).dt))
                => resp.out.report.age_analysis.oldest_card_date
                      = Str(strftime(ExpectedOpenDate(resp.cards[i].open_date.s).dt))

\* a string no format matches ahead of "01/2024": the report is dated
\* 2024-01-01
C10_Witness ==
    /\ IsReport
    /\ Len(resp.cards) = 2
    /\ resp.cards[1].open_date = Str(dGarbage)
    /\ resp.cards[2].open_date = Str(dSlash)
    /\ OpenDatePortfolio(resp.cards[1]).tried = 4
    /\ OpenDatePortfolio(resp.cards[2]).tried = 2
    /\ resp.out.report.age_analysis.oldest_card_date
          = Str(<<"2", "0", "2", "4", "-", "0", "1", "-", "0", "1">>)

\* C11: the two-record example (both Active; the first opened 2024-01-01,
\* limit 1000, balance 500, fee 0; the second opened 2010-01-01, limit 2000,
\* balance 0, fee 95) on 2024-06-01: one record in the window, eligible,
\* 4 slots left; total limit 3000, total balance 500, utilization 16.7,
\* fees 95 with one fee card and one no-fee card, and the utilization
\* breakdown is the 50.0 entry of the first record, then the 0.0 entry of
\* the second.
C11_WorkedExample ==
    (db = Stored(ExampleCards, Owner) /\ now.day = RefDay) =>
        /\ IsCalculate =>
              /\ resp.out.cards_in_24_months = 1
              /\ resp.out.is_eligible = TRUE
              /\ resp.out.remaining_slots = 4
        /\ IsDashboard =>
              /\ resp.out.status = 200
              /\ resp.out.body.five_24_status.cards_in_24_months = 1
              /\ resp.out.body.five_24_status.is_eligible = TRUE
              /\ resp.out.body.five_24_status.remaining_slots = 4
              /\ resp.out.body.total_credit_limit = 3000
              /\ resp.out.body.total_balance = 500
              /\ resp.out.body.credit_utilization = 167
              /\ resp.out.body.total_annual_fees = 95
              /\ resp.out.body.portfolio_analysis.annual_fees.total = 95
              /\ resp.out.body.portfolio_analysis.annual_fees.fee_cards_count = 1
              /\ resp.out.body.portfolio_analysis.annual_fees.no_fee_cards_count = 1
              /\ resp.out.body.portfolio_analysis.utilization_breakdown =
                    <<[card_name |-> Str(<<"A">>), utilization |-> 500, balance |-> 500, limit |-> 1000],
                      [card_name |-> Str(<<"B">>), utilization |-> 0, balance |-> 0, limit |-> 2000]>>

\* the dashboard of the example
C11_Witness ==
    /\ IsDashboard
    /\ db = Stored(ExampleCards, Owner)
    /\ now.day = RefDay
    /\ resp.out.status = 200
    /\ resp.out.body.credit_utilization = 167
    /\ Len(resp.out.body.portfolio_analysis.utilization_breakdown) = 2

\* the string has the form dddd-dd-dd
IsPaddedYMD(s) ==
    /\ Len(s) = 10
    /\ s[5] = "-" /\ s[8] = "-"
    /\ \A k \in {1, 2, 3, 4, 6, 7, 9, 10} : s[k] \in Digits

\* the records whose open date analyze_credit_portfolio obtains
DatedRecords(cards) == {i \in Indices(cards) : OpenDatePortfolio(cards[i]).dt.ok}

\* C12: when the only dated record of the list has a valid open date in
\* zero-padded YYYY-MM-DD form, oldest_card_date and newest_card_date of
\* the report both are that string.
C12_RoundTrip ==
    IsReport =>
        \A i \in Indices(resp.cards) :
            (DatedRecords(resp.cards) = {i} /\ IsPaddedYMD(resp.cards[i].open_date.s)) =>
                /\ resp.out.report.age_analysis.oldest_card_date = resp.cards[i].open_date
                /\ resp.out.report.age_analysis.newest_card_date = resp.cards[i].open_date

\* the fields test_get_dashboard_stats requires
RequiredFields ==
    {"total_cards", "active_cards", "closed_cards", "average_age_years",
     "total_credit_limit", "total_balance", "credit_utilization", "total_annual_fees",
     "five_24_status", "portfolio_analysis", "top_utilization_cards", "issuer_breakdown",
     "age_analysis"}

Five24Fields ==
    {"cards_in_24_months", "is_eligible", "remaining_slots", "status", "recommendation"}

AnnualFeesFields ==
    {"total", "fee_cards", "no_fee_cards", "fee_cards_count", "no_fee_cards_count"}

AgeAnalysisFields ==
    {"oldest_card_date", "newest_card_date", "average_age_months", "average_age_years"}

UtilizationFields == {"card_name", "utilization", "balance", "limit"}

\* C13: every 200 response of get_dashboard_stats, of the default payload
\* as of the computed one, has the thirteen top-level fields, the five
\* fields of five_24_status, the five of annual_fees, the four of
\* age_analysis, issuer_breakdown as a map from issuers to counts and
\* top_utilization_cards as a list of entries with card_name, utilization,
\* balance and limit; the report of calculate_5_24_status has its five
\* fields on the normal and on the degraded path.
C13_PayloadShape ==
    /\ (IsDashboard /\ resp.out.status = 200) =>
          /\ RequiredFields \subseteq DOMAIN resp.out.body
          /\ Five24Fields \subseteq DOMAIN resp.out.body.five_24_status
          /\ AnnualFeesFields \subseteq DOMAIN resp.out.body.portfolio_analysis.annual_fees
          /\ AgeAnalysisFields \subseteq DOMAIN resp.out.body.age_analysis
          /\ \A k \in DOMAIN resp.out.body.issuer_breakdown :
                resp.out.body.issuer_breakdown[k] \in Nat
          /\ DOMAIN resp.out.body.top_utilization_cards
                = 1..Len(resp.out.body.top_utilization_cards)
          /\ \A j \in DOMAIN resp.out.body.top_utilization_cards :
                UtilizationFields \subseteq DOMAIN resp.out.body.top_utilization_cards[j]
    /\ IsCalculate => Five24Fields \subseteq DOMAIN resp.out

\* a computed payload with an entry in top_utilization_cards
C13_Witness ==
    /\ IsDashboard
    /\ resp.out.status = 200
    /\ resp.cards # <<>>
    /\ Len(resp.out.body.top_utilization_cards) >= 1
    /\ DOMAIN resp.out.body.issuer_breakdown # {}

\* the documents of the other users are the same, in the same order
OthersUnchanged(u) == \A v \in Users \ {u} : FindByUser(db', v) = FindByUser(db, v)

\* the step inserts a document for user u
InsertsFor(u) ==
    resp'.op \in {"create_credit_card", "upload_credit_report"} /\ resp'.user = u

\* C14: clear_all_cards by user U removes exactly the documents of U, and
\* as long as nothing is inserted for U no step gives U a document, so the
\* next get_credit_cards by U returns the empty list; the documents of the
\* other owners stay as they are.  get_credit_cards returns the documents
\* of its user and no other, delete_credit_card removes at most one
\* document, one of its user, and create and upload insert for their user
\* only.
C14_OwnerIsolation ==
    [][/\ resp'.op = "clear_all_cards" =>
              /\ FindByUser(db', resp'.user) = <<>>
              /\ OthersUnchanged(resp'.user)
       /\ \A u \in Users :
              (FindByUser(db, u) = <<>> /\ ~InsertsFor(u)) => FindByUser(db', u) = <<>>
       /\ resp'.op = "get_credit_cards" =>
              /\ db' = db
              /\ resp'.out = FindByUser(db, resp'.user)
              /\ \A i \in 1..Len(resp'.out) : resp'.out[i].user_id = resp'.user
              /\ \A i \in 1..Len(db) :
                    db[i].user_id = resp'.user => \E j \in 1..Len(resp'.out) : resp'.out[j] = db[i]
       /\ resp'.op = "delete_credit_card" =>
              /\ OthersUnchanged(resp'.user)
              /\ Len(db') = Len(db) - (IF resp'.status = 200 THEN 1 ELSE 0)
       /\ resp'.op \in {"create_credit_card", "upload_credit_report"} =>
              /\ OthersUnchanged(resp'.user)
              /\ \A i \in 1..Len(resp'.out) : resp'.out[i].user_id = resp'.user
      ]_vars

\* a clear by u1, who had documents, with documents of u2 in the
\* collection, one of them under an id u1 also used
C14_Witness ==
    /\ resp.op = "clear_all_cards"
    /\ resp.user = "u1"
    /\ FindByUser(db, "u1") = <<>>
    /\ Len(FindByUser(db, "u2")) = 2
    /\ \E i \in 1..Len(db) : db[i].id = 1

\* the active records of the call whose date, as analyze_credit_portfolio
\* obtains it, is on or after the cutoff of the call
InWindowByPortfolioDate ==
    {i \in Indices(resp.cards) :
        /\ IsActiveCI(resp.cards[i])
        /\ ParsedInWindow(OpenDatePortfolio(resp.cards[i]).dt, CutoffDate(resp.now))}

\* the dates calculate_5_24_status obtains from the records of the call
DatesBy524 ==
    {OpenDate524(resp.cards[i]).dt : i \in {j \in Indices(resp.cards) : OpenDate524(resp.cards[j]).dt.ok}}

\* C15: calculate_5_24_status and analyze_credit_portfolio obtain a date
\* from the same open dates, and the same date: record by record the two
\* loops agree; the count of calculate_5_24_status is the number of active
\* records whose date as analyze_credit_portfolio reads it is in the
\* window; oldest_card_date and newest_card_date are among the dates as
\* calculate_5_24_status reads them, and are absent exactly when it reads
\* none.
C15_ParsersAgree ==
    /\ \A i \in Indices(db) :
          /\ OpenDate524(db[i]).dt.ok = OpenDatePortfolio(db[i]).dt.ok
          /\ OpenDate524(db[i]).dt = OpenDatePortfolio(db[i]).dt
    /\ CompletedNormally => resp.out.cards_in_24_months = Cardinality(InWindowByPortfolioDate)
    /\ IsReport =>
          /\ (resp.out.report.age_analysis.oldest_card_date = Null) = (DatesBy524 = {})
          /\ (resp.out.report.age_analysis.newest_card_date = Null) = (DatesBy524 = {})
          /\ DatesBy524 # {} =>
                /\ \E dt \in DatesBy524 :
                      resp.out.report.age_analysis.oldest_card_date = Str(strftime(dt))
                /\ \E dt \in DatesBy524 :
                      resp.out.report.age_analysis.newest_card_date = Str(strftime(dt))

\* a report dated by a string only the fourth format matches, which
\* calculate_5_24_status reads as the same day
C15_Witness ==
    /\ IsReport
    /\ Len(resp.cards) = 1
    /\ resp.cards[1].open_date = Str(dMonthDayYear)
    /\ OpenDate524(resp.cards[1]).dt = Date(2024, 1, 15)
    /\ resp.out.report.age_analysis.oldest_card_date
          = Str(<<"2", "0", "2", "4", "-", "0", "1", "-", "1", "5">>)

\* the records of the list with a limit that is a number other than 0 and
\* a balance that is a number
WithLimitAndBalance(cards) ==
    {i \in Indices(cards) :
        /\ cards[i].credit_limit.t = "num" /\ cards[i].credit_limit.n # 0
        /\ cards[i].current_balance.t = "num"}

\* limit, balance and fee of every record are numbers or missing
NumericFields(cards) ==
    \A i \in Indices(cards) :
        \A k \in {"credit_limit", "current_balance", "annual_fee"} :
            cards[i][k].t \in {"num", "null", "absent"}

\* C16: utilization_breakdown has one entry for each record whose limit is
\* present and not 0 and whose balance is not null, and no other: a balance
\* of 0 gives an entry of utilization 0, a limit of 0 or a missing limit or
\* balance gives none; a list whose amounts are numbers (or missing) and
\* whose statuses are strings never makes analyze_credit_portfolio raise.
C16_UtilizationEntries ==
    /\ IsReport =>
          /\ Len(resp.out.report.utilization_breakdown)
                = Cardinality(WithLimitAndBalance(resp.cards))
          /\ \A i \in WithLimitAndBalance(resp.cards) :
                \E j \in 1..Len(resp.out.report.utilization_breakdown) :
                    /\ resp.out.report.utilization_breakdown[j].card_name = resp.cards[i].card_name
                    /\ resp.out.report.utilization_breakdown[j].balance = resp.cards[i].current_balance.n
                    /\ resp.out.report.utilization_breakdown[j].limit = resp.cards[i].credit_limit.n
                    /\ resp.cards[i].current_balance.n = 0 =>
                          resp.out.report.utilization_breakdown[j].utilization = 0
          /\ \A j \in 1..Len(resp.out.report.utilization_breakdown) :
                \E i \in WithLimitAndBalance(resp.cards) :
                    resp.out.report.utilization_breakdown[j].card_name = resp.cards[i].card_name
    /\ (IsAnalyze /\ NumericFields(resp.cards)
            /\ \A i \in Indices(resp.cards) : resp.cards[i].status.t \in {"str", "absent"}) =>
          resp.out.kind # "raised"

\* a balance of 0, a limit of 0 and a null balance in one list: one entry,
\* of utilization 0
C16_Witness ==
    /\ IsReport
    /\ Len(resp.cards) = 3
    /\ resp.cards[1].current_balance = Num(0) /\ resp.cards[1].credit_limit = Num(1000)
    /\ resp.cards[2].credit_limit = Num(0)
    /\ resp.cards[3].current_balance = Null /\ resp.cards[3].credit_limit = Num(1000)
    /\ Len(resp.out.report.utilization_breakdown) = 1
    /\ resp.out.report.utilization_breakdown[1].utilization = 0

\* C17: average_age_months and average_age_years are both without a value
\* exactly when no open date of the list was parsed; when one was, be it
\* the current day, both have a value and average_age_years is
\* average_age_months / 12 rounded to one decimal.
C17_AgesTogether ==
    IsReport =>
        /\ (resp.out.report.age_analysis.average_age_months = Null)
              = (DatedRecords(resp.cards) = {})
        /\ (resp.out.report.age_analysis.average_age_years = Null)
              = (DatedRecords(resp.cards) = {})
        /\ DatedRecords(resp.cards) # {} =>
              resp.out.report.age_analysis.average_age_years
                 = Num(RoundDivSigned(resp.out.report.age_analysis.average_age_months.n, 12))

\* the status is a string equal to "closed" up to the case of its letters
IsClosedCI(card) ==
    /\ card.status.t = "str"
    /\ Len(card.status.s) = 6
    /\ card.status.s[1] \in {"c", "C"} /\ card.status.s[2] \in {"l", "L"}
    /\ card.status.s[3] \in {"o", "O"} /\ card.status.s[4] \in {"s", "S"}
    /\ card.status.s[5] \in {"e", "E"} /\ card.status.s[6] \in {"d", "D"}

\* C18: in the report of a non-empty list, total_cards is the number of
\* records, active_cards the number whose status is "active" up to case,
\* closed_cards the number whose status is "closed" up to case,
\* unique_issuers the number of keys of issuer_breakdown; active_cards +
\* closed_cards is at most total_cards, and less exactly when a record has
\* another status.
C18_PortfolioStats ==
    IsReport =>
        /\ resp.cards # <<>>
        /\ resp.out.report.portfolio_stats.total_cards = Len(resp.cards)
        /\ resp.out.report.portfolio_stats.active_cards
              = Cardinality({i \in Indices(resp.cards) : IsActiveCI(resp.cards[i])})
        /\ resp.out.report.portfolio_stats.closed_cards
              = Cardinality({i \in Indices(resp.cards) : IsClosedCI(resp.cards[i])})
        /\ resp.out.report.portfolio_stats.unique_issuers
              = Cardinality(DOMAIN resp.out.report.issuer_breakdown)
        /\ resp.out.report.portfolio_stats.active_cards
              + resp.out.report.portfolio_stats.closed_cards
              <= resp.out.report.portfolio_stats.total_cards
        /\ (resp.out.report.portfolio_stats.active_cards
              + resp.out.report.portfolio_stats.closed_cards
              < resp.out.report.portfolio_stats.total_cards)
              = (\E i \in Indices(resp.cards) :
                    ~IsActiveCI(resp.cards[i]) /\ ~IsClosedCI(resp.cards[i]))

\* "Unknown" and "Active" of two issuers: one active, none closed, two in
\* all
C18_Witness ==
    /\ IsReport
    /\ Len(resp.cards) = 2
    /\ resp.cards[1].status = Str(stUnknown)
    /\ resp.cards[2].status = Str(stActive)
    /\ resp.cards[1].issuer # resp.cards[2].issuer
    /\ resp.out.report.portfolio_stats =
          [total_cards |-> 2, active_cards |-> 1, closed_cards |-> 0, unique_issuers |-> 2]

\* the entries of the breakdown in the payload that exceed 30 percent
Over30 ==
    SelectSeq(resp.out.body.portfolio_analysis.utilization_breakdown,
              LAMBDA x : x.utilization > 300)

\* C19: top_utilization_cards is the utilization-sorted breakdown reduced
\* to its entries above 30 percent, and of those the first three: at most
\* three entries, each above 30 (one of exactly 30.0 is left out), sorted
\* non-increasing, and no entry left out for the length is greater than
\* one that is in.
C19_TopUtilization ==
    (IsDashboard /\ resp.out.status = 200) =>
        /\ Len(resp.out.body.top_utilization_cards) <= 3
        /\ Len(resp.out.body.top_utilization_cards) = IF Len(Over30) < 3 THEN Len(Over30) ELSE 3
        /\ \A j \in 1..Len(resp.out.body.top_utilization_cards) :
              /\ resp.out.body.top_utilization_cards[j] = Over30[j]
              /\ resp.out.body.top_utilization_cards[j].utilization > 300
              /\ \A k \in 1..Len(Over30) :
                    j < k => resp.out.body.top_utilization_cards[j].utilization
                                >= Over30[k].utilization
        /\ \A j \in 1..Len(resp.out.body.portfolio_analysis.utilization_breakdown) :
              resp.out.body.portfolio_analysis.utilization_breakdown[j].utilization <= 300
                 => \A k \in 1..Len(resp.out.body.top_utilization_cards) :
                       resp.out.body.top_utilization_cards[k]
                          # resp.out.body.portfolio_analysis.utilization_breakdown[j]

\* four records above 30 percent, the one at 50 behind three at 90: the
\* three at 90 are listed
C19_Witness ==
    /\ IsDashboard
    /\ resp.out.status = 200
    /\ Len(resp.cards) = 4
    /\ resp.cards[1].current_balance = Num(500)
    /\ Len(Over30) = 4
    /\ Len(resp.out.body.top_utilization_cards) = 3
    /\ \A j \in 1..3 : resp.out.body.top_utilization_cards[j].utilization = 900

\* the sum of the field over the records, a value that is no number
\* counting 0
NumericSum(cards, key) ==
    SumOver([i \in Indices(cards) |-> IF cards[i][key].t = "num" THEN cards[i][key].n ELSE 0],
            Indices(cards))

\* x, in tenths, is a / b * 100 rounded to one decimal
IsPercentRounded(x, a, b) ==
    /\ 2 * (x * b - a * 1000) <= b
    /\ 2 * (a * 1000 - x * b) <= b

\* C20: in the payload of get_dashboard_stats total_credit_limit and
\* total_balance are the sums over all records, a missing or null value
\* counting 0; credit_utilization is total_balance / total_credit_limit *
\* 100 rounded to one decimal when total_credit_limit > 0 and 0 when it is
\* 0; a snapshot of numeric or missing amounts gets its payload, whatever
\* its limits.
C20_Totals ==
    /\ (IsDashboard /\ resp.out.status = 200) =>
          /\ resp.out.body.total_credit_limit = NumericSum(resp.cards, "credit_limit")
          /\ resp.out.body.total_balance = NumericSum(resp.cards, "current_balance")
          /\ IF resp.out.body.total_credit_limit > 0
             THEN IsPercentRounded(resp.out.body.credit_utilization,
                                   resp.out.body.total_balance,
                                   resp.out.body.total_credit_limit)
             ELSE resp.out.body.credit_utilization = 0
    /\ (IsDashboard /\ NumericFields(resp.cards)
            /\ \A i \in Indices(resp.cards) : resp.cards[i].status.t \in {"str", "absent"}) =>
          resp.out.status = 200

\* a null limit and a limit of 0 with balances: total limit 0, total
\* balance 1000, utilization 0
C20_Witness ==
    /\ IsDashboard
    /\ resp.out.status = 200
    /\ Len(resp.cards) = 2
    /\ resp.cards[1].credit_limit = Null
    /\ resp.cards[2].credit_limit = Num(0)
    /\ resp.out.body.total_credit_limit = 0
    /\ resp.out.body.total_balance = 1000
    /\ resp.out.body.credit_utilization = 0

\* the fee of the record is a number greater than 0
HasFee(card) == card.annual_fee.t = "num" /\ card.annual_fee.n > 0

\* the records of the call with a fee, and those without, in their order
FeeRecords == SelectSeq(resp.cards, HasFee)

NoFeeRecords == SelectSeq(resp.cards, LAMBDA card : ~HasFee(card))

RECURSIVE SumOfFees(_)
SumOfFees(fee_cards) ==
    IF fee_cards = <<>> THEN 0 ELSE fee_cards[1].annual_fee + SumOfFees(Tail(fee_cards))

\* C21: every record is in exactly one of the two lists: in fee_cards, with
\* its name and fee, when its annual_fee is greater than 0, otherwise (a
\* fee of 0, null or missing, or below 0) in no_fee_cards with its name;
\* the two counts add up to total_cards, and when no fee is below 0 the
\* total is the sum of the fees in fee_cards.
C21_FeeClassification ==
    IsReport =>
        /\ Len(resp.out.report.annual_fees.fee_cards) = Len(FeeRecords)
        /\ \A j \in 1..Len(FeeRecords) :
              resp.out.report.annual_fees.fee_cards[j]
                 = [card_name |-> FeeRecords[j].card_name, annual_fee |-> FeeRecords[j].annual_fee.n]
        /\ Len(resp.out.report.annual_fees.no_fee_cards) = Len(NoFeeRecords)
        /\ \A j \in 1..Len(NoFeeRecords) :
              resp.out.report.annual_fees.no_fee_cards[j] = NoFeeRecords[j].card_name
        /\ resp.out.report.annual_fees.fee_cards_count = Len(resp.out.report.annual_fees.fee_cards)
        /\ resp.out.report.annual_fees.no_fee_cards_count
              = Len(resp.out.report.annual_fees.no_fee_cards)
        /\ resp.out.report.annual_fees.fee_cards_count
              + resp.out.report.annual_fees.no_fee_cards_count
              = resp.out.report.portfolio_stats.total_cards
        /\ resp.out.report.portfolio_stats.total_cards = Len(resp.cards)
        /\ (\A i \in Indices(resp.cards) :
                resp.cards[i].annual_fee.t = "num" => resp.cards[i].annual_fee.n >= 0)
              => resp.out.report.annual_fees.total = SumOfFees(resp.out.report.annual_fees.fee_cards)

\* a fee of 95 and a null fee: one record in each list, total 95
C21_Witness ==
    /\ IsReport
    /\ Len(resp.cards) = 2
    /\ resp.cards[1].annual_fee = Num(95)
    /\ resp.cards[2].annual_fee = Null
    /\ resp.out.report.annual_fees =
          [total |-> 95,
           fee_cards |-> <<[card_name |-> Str(<<"A">>), annual_fee |-> 95]>>,
           no_fee_cards |-> <<Str(<<"D">>)>>,
           fee_cards_count |-> 1,
           no_fee_cards_count |-> 1]

\* the issuers with a record of the call whose limit is a number other
\* than 0
IssuersWithLimit ==
    {resp.cards[i].issuer : i \in {j \in Indices(resp.cards) :
        resp.cards[j].credit_limit.t = "num" /\ resp.cards[j].credit_limit.n # 0}}

\* C22: in the payload for a non-empty snapshot with numeric (or missing)
\* limits, the values of issuer_limits add up to total_credit_limit; the
\* keys of issuer_limits are the issuers with a record of non-zero limit,
\* all of them keys of issuer_breakdown, whose keys are all issuers: an
\* issuer without such a record is a key of issuer_breakdown only.
C22_IssuerLimitsTotal ==
    (IsDashboard /\ resp.out.status = 200 /\ resp.cards # <<>>) =>
        /\ SumOver(resp.out.body.portfolio_analysis.issuer_limits,
                   DOMAIN resp.out.body.portfolio_analysis.issuer_limits)
              = resp.out.body.total_credit_limit
        /\ DOMAIN resp.out.body.portfolio_analysis.issuer_limits = IssuersWithLimit
        /\ DOMAIN resp.out.body.portfolio_analysis.issuer_limits
              \subseteq DOMAIN resp.out.body.portfolio_analysis.issuer_breakdown
        /\ DOMAIN resp.out.body.portfolio_analysis.issuer_breakdown
              = {resp.cards[i].issuer : i \in Indices(resp.cards)}
        /\ resp.out.body.issuer_breakdown = resp.out.body.portfolio_analysis.issuer_breakdown

\* three issuers, one with a limit of 1000, one with a null limit, one
\* with a limit of 0: one key in issuer_limits, three in issuer_breakdown
C22_Witness ==
    /\ IsDashboard
    /\ resp.out.status = 200
    /\ Len(resp.cards) = 3
    /\ resp.cards[1].credit_limit = Num(1000)
    /\ resp.cards[2].credit_limit = Null
    /\ resp.cards[3].credit_limit = Num(0)
    /\ Cardinality(DOMAIN resp.out.body.portfolio_analysis.issuer_breakdown) = 3
    /\ DOMAIN resp.out.body.portfolio_analysis.issuer_limits = {resp.cards[1].issuer}
    /\ resp.out.body.total_credit_limit = 1000

\* the records of the call whose status is neither "active" nor "closed"
\* up to case
OtherStatus ==
    {i \in Indices(resp.cards) : ~IsActiveCI(resp.cards[i]) /\ ~IsClosedCI(resp.cards[i])}

\* C23: in the payload for a non-empty snapshot the top-level closed_cards
\* is total_cards - active_cards, so the two top-level counts add up to
\* total_cards; a record whose status is neither active nor closed is
\* counted in the top-level closed_cards and not in closed_cards of
\* portfolio_stats, which counts the closed records only.
C23_TopLevelClosed ==
    (IsDashboard /\ resp.out.status = 200 /\ resp.cards # <<>>) =>
        /\ resp.out.body.total_cards = Len(resp.cards)
        /\ resp.out.body.active_cards
              = Cardinality({i \in Indices(resp.cards) : IsActiveCI(resp.cards[i])})
        /\ resp.out.body.closed_cards = resp.out.body.total_cards - resp.out.body.active_cards
        /\ resp.out.body.active_cards + resp.out.body.closed_cards = resp.out.body.total_cards
        /\ resp.out.body.portfolio_analysis.portfolio_stats.closed_cards
              = Cardinality({i \in Indices(resp.cards) : IsClosedCI(resp.cards[i])})
        /\ resp.out.body.closed_cards
              = resp.out.body.portfolio_analysis.portfolio_stats.closed_cards
                   + Cardinality(OtherStatus)

\* "Unknown" and "Closed": closed_cards is 2 at the top level and 1 in
\* portfolio_stats
C23_Witness ==
    /\ IsDashboard
    /\ resp.out.status = 200
    /\ Len(resp.cards) = 2
    /\ resp.cards[1].status = Str(stUnknown)
    /\ resp.cards[2].status = Str(stClosed)
    /\ resp.out.body.closed_cards = 2
    /\ resp.out.body.active_cards = 0
    /\ resp.out.body.portfolio_analysis.portfolio_stats.closed_cards = 1

====
